---- MODULE Spec2Model ----
(***************************************************************************)
(* Model of weather.py: unit conversion, date rendering, aggregation       *)
(* (mean, min and max with last-occurrence tie-break) and the two report   *)
(* generators.  Every function of the module is a pure function; the       *)
(* state machine is a caller that invokes one function at a time on an     *)
(* input drawn from a bounded pool and observes what comes back (a value   *)
(* or a raised exception).                                                 *)
(*                                                                         *)
(* Representation choices                                                  *)
(*   - a Python float that holds an integer is the integer;                *)
(*   - the float returned by calculate_mean and the averages of            *)
(*     generate_summary are exact rationals [num, den];                    *)
(*   - a float rounded to one decimal is the integer number of tenths;     *)
(*   - an input ISO string is a sequence of one-character strings;         *)
(*   - an output text is a sequence of pieces: each piece is either one    *)
(*     whitespace character (" " or "\n") or a non-empty run of            *)
(*     non-whitespace characters, so that join, strip and split act on     *)
(*     pieces exactly as they act on characters;                           *)
(*   - a call either returns Ok(value) or raises Raise(exception name).    *)
(*                                                                         *)
(* round(x, 1) is computed on the exact rational, ties to even.  For an    *)
(* integer Fahrenheit input, and for a mean over fewer than twelve         *)
(* integer readings, the exact value is either no tie at all or a tie      *)
(* that a double holds exactly (x.25, x.75), so the double computation     *)
(* gives the same digit, and the result is never a negative zero.          *)
(***************************************************************************)
EXTENDS Integers, Sequences, FiniteSets, TLC

\* ------------------------------------------------------------------ bounds
MaxLen == 4
MaxDays == 3
\* the coldest Fahrenheit input is MaxBelowZero degrees below zero
MaxBelowZero == 40
MaxF == 212

ValuePool == {-1, 0, 1, 2, 3}
MinTempPool == {45, 50}
MaxTempPool == {59, 60}
FahrenheitPool == (-MaxBelowZero)..MaxF

\* all sequences over S of length 0..n
RECURSIVE SeqsUpTo(_, _)
SeqsUpTo(S, n) ==
    IF n = 0 THEN {<<>>}
    ELSE LET shorter == SeqsUpTo(S, n - 1)
         IN  shorter \cup {Append(s, x) : s \in {t \in shorter : Len(t) = n - 1}, x \in S}

\* ------------------------------------------------------- call outcomes
Ok(v) == [kind |-> "ok", value |-> v]
Raise(e) == [kind |-> "raise", exc |-> e]

\* ------------------------------------------------- Python list built-ins
\* s[::-1]
py_reversed(s) == [i \in 1..Len(s) |-> s[Len(s) + 1 - i]]

\* list.index(x): 0-based position of the first element equal to x
RECURSIVE py_index_from(_, _, _)
py_index_from(s, x, i) ==
    IF i > Len(s) THEN Raise("ValueError")
    ELSE IF s[i] = x THEN Ok(i - 1)
    ELSE py_index_from(s, x, i + 1)

py_index(s, x) == py_index_from(s, x, 1)

\* sum(s)
RECURSIVE py_sum(_)
py_sum(s) == IF Len(s) = 0 THEN 0 ELSE s[1] + py_sum(Tail(s))

\* min(s): left-to-right scan keeping the smallest seen; empty raises
RECURSIVE py_min_scan(_, _)
py_min_scan(s, best) ==
    IF Len(s) = 0 THEN best
    ELSE py_min_scan(Tail(s), IF s[1] < best THEN s[1] ELSE best)

py_min(s) == IF Len(s) = 0 THEN Raise("ValueError") ELSE Ok(py_min_scan(Tail(s), s[1]))

\* max(s): left-to-right scan keeping the largest seen; empty raises
RECURSIVE py_max_scan(_, _)
py_max_scan(s, best) ==
    IF Len(s) = 0 THEN best
    ELSE py_max_scan(Tail(s), IF s[1] > best THEN s[1] ELSE best)

py_max(s) == IF Len(s) = 0 THEN Raise("ValueError") ELSE Ok(py_max_scan(Tail(s), s[1]))

\* ------------------------------------------------------------ rationals
Abs(n) == IF n < 0 THEN -n ELSE n

RECURSIVE Gcd(_, _)
Gcd(a, b) == IF b = 0 THEN a ELSE Gcd(b, a % b)

\* the quotient num / den (den > 0) in lowest terms
Rat(num, den) ==
    LET g == Gcd(Abs(num), den)
    IN  [num |-> num \div g, den |-> den \div g]

\* float(x) / n: ZeroDivisionError when n = 0
py_truediv(x, n) == IF n = 0 THEN Raise("ZeroDivisionError") ELSE Ok(Rat(x, n))

\* round(p / q) to the nearest integer, ties to the even one (q > 0)
RoundHalfEven(p, q) ==
    LET fl == p \div q
        r2 == 2 * (p - fl * q)
    IN  IF r2 < q THEN fl
        ELSE IF r2 > q THEN fl + 1
        ELSE IF fl % 2 = 0 THEN fl ELSE fl + 1

\* --------------------------------------------------- TemperatureConverter
\* round((temp - 32) * 5.0/9.0, 1) for temp = x.num / x.den, in tenths of a degree
convert_f_to_c_trunc(x) == (50 * (x.num - 32 * x.den)) \div (9 * x.den)

convert_f_to_c(x) == RoundHalfEven(50 * (x.num - 32 * x.den), 9 * x.den)

\* str() of a float that holds a whole number of tenths
float_str(t) ==
    (IF t < 0 THEN "-" ELSE "") \o ToString(Abs(t) \div 10) \o "." \o ToString(Abs(t) % 10)

DEGREE_SYMBOL == "°C"

format_temperature(t) == float_str(t) \o DEGREE_SYMBOL

\* ------------------------------------------------------------- Aggregator
calculate_mean_zero(weather_data) ==
    IF Len(weather_data) = 0 THEN Ok(Rat(0, 1))
    ELSE py_truediv(py_sum(weather_data), Len(weather_data))

calculate_mean(weather_data) == py_truediv(py_sum(weather_data), Len(weather_data))

find_min_first(weather_data) ==
    IF Len(weather_data) = 0 THEN <<>>
    ELSE LET min_value == py_min(weather_data).value
         IN  <<min_value, py_index(weather_data, min_value).value>>

find_min(weather_data) ==
    IF Len(weather_data) = 0 THEN <<>>
    ELSE LET weather_data_float == weather_data
             min_value == py_min(weather_data_float).value
             min_index == Len(weather_data_float) - 1
                            - py_index(py_reversed(weather_data_float), min_value).value
         IN  <<min_value, min_index>>

find_max_falsy(weather_data) ==
    IF Len(weather_data) = 0 \/ (\A i \in 1..Len(weather_data) : weather_data[i] = 0) THEN <<>>
    ELSE LET max_value == py_max(weather_data).value
             max_index == Len(weather_data) - 1
                            - py_index(py_reversed(weather_data), max_value).value
         IN  <<max_value, max_index>>

find_max_first(weather_data) ==
    IF Len(weather_data) = 0 THEN <<>>
    ELSE LET max_value == py_max(weather_data).value
         IN  <<max_value, py_index(weather_data, max_value).value>>

find_max(weather_data) ==
    IF Len(weather_data) = 0 THEN <<>>
    ELSE LET max_value == py_max(weather_data).value
             max_index == Len(weather_data) - 1
                            - py_index(py_reversed(weather_data), max_value).value
         IN  <<max_value, max_index>>

\* ---------------------------------------------------------- DateFormatter
DigitChars == <<"0", "1", "2", "3", "4", "5", "6", "7", "8", "9">>

IsDigit(c) == \E i \in 1..10 : DigitChars[i] = c

DigitVal(c) == (CHOOSE i \in 1..10 : DigitChars[i] = c) - 1

\* the number written by the digits s[from..to]
RECURSIVE ParseInt(_, _, _)
ParseInt(s, from, to) ==
    IF to < from THEN 0 ELSE 10 * ParseInt(s, from, to - 1) + DigitVal(s[to])

AllDigits(s, from, to) == \A i \in from..to : IsDigit(s[i])

\* iso_string[:19]
IsoSignificant == 19

py_prefix(s, n) == SubSeq(s, 1, IF Len(s) < n THEN Len(s) ELSE n)

IsLeap(y) == y % 4 = 0 /\ (y % 100 # 0 \/ y % 400 = 0)

DaysInMonth(y, m) ==
    IF m = 2 THEN (IF IsLeap(y) THEN 29 ELSE 28)
    ELSE IF m \in {4, 6, 9, 11} THEN 30 ELSE 31

RECURSIVE DaysBeforeMonth(_, _)
DaysBeforeMonth(y, m) ==
    IF m = 1 THEN 0 ELSE DaysBeforeMonth(y, m - 1) + DaysInMonth(y, m - 1)

DaysBeforeYear(y) ==
    LET p == y - 1 IN p * 365 + (p \div 4) - (p \div 100) + (p \div 400)

\* proleptic Gregorian ordinal, 0001-01-01 is day 1
ToOrdinal(y, m, d) == DaysBeforeYear(y) + DaysBeforeMonth(y, m) + d

\* Monday is 0
Weekday(y, m, d) == (ToOrdinal(y, m, d) + 6) % 7

DayNames == <<"Monday", "Tuesday", "Wednesday", "Thursday", "Friday", "Saturday", "Sunday">>

MonthNames ==
    <<"January", "February", "March", "April", "May", "June", "July", "August",
      "September", "October", "November", "December">>

\* datetime.fromisoformat on the extended format YYYY-MM-DD[?HH[:MM[:SS]]],
\* the format of the dates the loader reads; ? is any one character
fromisoformat(s) ==
    LET n == Len(s)
        dateShape == /\ n >= 10
                     /\ AllDigits(s, 1, 4) /\ s[5] = "-"
                     /\ AllDigits(s, 6, 7) /\ s[8] = "-"
                     /\ AllDigits(s, 9, 10)
        timeShape == \/ n = 10
                     \/ n = 13 /\ AllDigits(s, 12, 13)
                     \/ n = 16 /\ AllDigits(s, 12, 13) /\ s[14] = ":" /\ AllDigits(s, 15, 16)
                     \/ n = 19 /\ AllDigits(s, 12, 13) /\ s[14] = ":" /\ AllDigits(s, 15, 16)
                               /\ s[17] = ":" /\ AllDigits(s, 18, 19)
    IN  IF ~(dateShape /\ timeShape) THEN Raise("ValueError")
        ELSE LET y == ParseInt(s, 1, 4)
                 m == ParseInt(s, 6, 7)
                 d == ParseInt(s, 9, 10)
                 hh == IF n >= 13 THEN ParseInt(s, 12, 13) ELSE 0
                 mm == IF n >= 16 THEN ParseInt(s, 15, 16) ELSE 0
                 ss == IF n >= 19 THEN ParseInt(s, 18, 19) ELSE 0
             IN  IF /\ y >= 1 /\ m \in 1..12 /\ d >= 1 /\ d <= DaysInMonth(y, m)
                    /\ hh <= 23 /\ mm <= 59 /\ ss <= 59
                 THEN Ok([year |-> y, month |-> m, day |-> d])
                 ELSE Raise("ValueError")

Pad(n, width) ==
    LET str == ToString(n)
        RECURSIVE Zeros(_)
        Zeros(k) == IF k <= 0 THEN "" ELSE "0" \o Zeros(k - 1)
    IN  Zeros(width - Len(str)) \o str

\* dt.strftime("%A %d %B %Y")
strftime(dt) ==
    <<DayNames[Weekday(dt.year, dt.month, dt.day) + 1], " ", Pad(dt.day, 2), " ",
      MonthNames[dt.month], " ", Pad(dt.year, 4)>>

convert_date(iso_string) ==
    LET dt == fromisoformat(py_prefix(iso_string, IsoSignificant))
    IN  IF dt.kind = "raise" THEN dt ELSE Ok(strftime(dt.value))

\* ------------------------------------------------------------ str built-ins
IsSpace(p) == p \in {" ", "\n", "\t", "\r"}

RECURSIVE py_lstrip(_)
py_lstrip(t) == IF Len(t) > 0 /\ IsSpace(t[1]) THEN py_lstrip(Tail(t)) ELSE t

RECURSIVE py_rstrip(_)
py_rstrip(t) ==
    IF Len(t) > 0 /\ IsSpace(t[Len(t)]) THEN py_rstrip(SubSeq(t, 1, Len(t) - 1)) ELSE t

\* str.strip()
py_strip(t) == py_lstrip(py_rstrip(t))

\* sep.join(lines)
RECURSIVE py_join(_, _)
py_join(sep, lines) ==
    IF Len(lines) = 0 THEN <<>>
    ELSE IF Len(lines) = 1 THEN lines[1]
    ELSE lines[1] \o <<sep>> \o py_join(sep, Tail(lines))

\* --------------------------------------------------------- SummaryReporter
\* a record of the dataset is the list [date, min, max]: day[0], day[1], day[2]
DayDate(day) == day[1]
DayMin(day) == day[2]
DayMax(day) == day[3]

\* [float(day[1]) for day in weather_data], [float(day[2]) for day in weather_data]
MinColumn(weather_data) == [i \in 1..Len(weather_data) |-> DayMin(weather_data[i])]
MaxColumn(weather_data) == [i \in 1..Len(weather_data) |-> DayMax(weather_data[i])]

\* min_temp = min(min_temps); min_index = min_temps.index(min_temp)
summary_min_index_last(min_temps) ==
    LET min_temp == py_min(min_temps)
    IN  IF min_temp.kind = "raise" THEN min_temp
        ELSE Ok(Len(min_temps) - 1 - py_index(py_reversed(min_temps), min_temp.value).value)

summary_min_index(min_temps) ==
    LET min_temp == py_min(min_temps)
    IN  IF min_temp.kind = "raise" THEN min_temp ELSE py_index(min_temps, min_temp.value)

\* max_temp = max(max_temps); max_index = max_temps.index(max_temp)
summary_max_index(max_temps) ==
    LET max_temp == py_max(max_temps)
    IN  IF max_temp.kind = "raise" THEN max_temp ELSE py_index(max_temps, max_temp.value)

\* the f-string of the overview
summary_text(num_days, min_temp, min_day, max_temp, max_day, avg_min, avg_max) ==
    <<ToString(num_days), " ", "Day", " ", "Overview", "\n">>
    \o <<" ", " ", "The", " ", "lowest", " ", "temperature", " ", "will", " ", "be", " ",
         format_temperature(convert_f_to_c(Rat(min_temp, 1))) \o ",", " ",
         "and", " ", "will", " ", "occur", " ", "on", " ">>
    \o SubSeq(min_day, 1, Len(min_day) - 1) \o <<min_day[Len(min_day)] \o ".", "\n">>
    \o <<" ", " ", "The", " ", "highest", " ", "temperature", " ", "will", " ", "be", " ",
         format_temperature(convert_f_to_c(Rat(max_temp, 1))) \o ",", " ",
         "and", " ", "will", " ", "occur", " ", "on", " ">>
    \o SubSeq(max_day, 1, Len(max_day) - 1) \o <<max_day[Len(max_day)] \o ".", "\n">>
    \o <<" ", " ", "The", " ", "average", " ", "low", " ", "this", " ", "week", " ", "is", " ",
         float_str(convert_f_to_c(avg_min)) \o "°C.", "\n">>
    \o <<" ", " ", "The", " ", "average", " ", "high", " ", "this", " ", "week", " ", "is", " ",
         float_str(convert_f_to_c(avg_max)) \o "°C.">>
    \o <<"\n">>

\* generate_summary from the lowest-temperature lookup on
summary_from(weather_data, num_days, min_temps, max_temps) ==
    LET min_index == summary_min_index(min_temps)
    IN  IF min_index.kind = "raise" THEN min_index ELSE
    LET min_day == convert_date(DayDate(weather_data[min_index.value + 1]))
    IN  IF min_day.kind = "raise" THEN min_day ELSE
    LET max_index == summary_max_index(max_temps)
    IN  IF max_index.kind = "raise" THEN max_index ELSE
    LET max_day == convert_date(DayDate(weather_data[max_index.value + 1]))
    IN  IF max_day.kind = "raise" THEN max_day ELSE
    LET avg_min == py_truediv(py_sum(min_temps), num_days)
    IN  IF avg_min.kind = "raise" THEN avg_min ELSE
    LET avg_max == py_truediv(py_sum(max_temps), num_days)
    IN  IF avg_max.kind = "raise" THEN avg_max ELSE
        Ok(summary_text(num_days, min_temps[min_index.value + 1], min_day.value,
                        max_temps[max_index.value + 1], max_day.value,
                        avg_min.value, avg_max.value))

generate_summary_guarded(weather_data) ==
    IF Len(weather_data) = 0 THEN Ok(<<"0", " ", "Day", " ", "Overview", "\n">>)
    ELSE summary_from(weather_data, Len(weather_data),
                      MinColumn(weather_data), MaxColumn(weather_data))

generate_summary(weather_data) ==
    summary_from(weather_data, Len(weather_data),
                 MinColumn(weather_data), MaxColumn(weather_data))

\* the loop of generate_daily_summary: three lines appended per day, in order
RECURSIVE daily_lines(_, _, _)
daily_lines(weather_data, i, lines) ==
    IF i > Len(weather_data) THEN Ok(lines)
    ELSE LET day == weather_data[i]
             date_str == convert_date(DayDate(day))
         IN  IF date_str.kind = "raise" THEN date_str
             ELSE LET min_temp == format_temperature(convert_f_to_c(Rat(DayMin(day), 1)))
                      max_temp == format_temperature(convert_f_to_c(Rat(DayMax(day), 1)))
                  IN  daily_lines(weather_data, i + 1,
                        lines \o << <<"----", " ">> \o date_str.value \o <<" ", "----">>,
                                    <<" ", " ", "Minimum", " ", "Temperature:", " ", min_temp>>,
                                    <<" ", " ", "Maximum", " ", "Temperature:", " ", max_temp, "\n">> >>)

generate_daily_summary_nostrip(weather_data) ==
    LET lines == daily_lines(weather_data, 1, <<>>)
    IN  IF lines.kind = "raise" THEN lines
        ELSE Ok(py_join("\n", lines.value) \o <<"\n">> \o <<"\n">>)

generate_daily_summary_one_newline(weather_data) ==
    LET lines == daily_lines(weather_data, 1, <<>>)
    IN  IF lines.kind = "raise" THEN lines
        ELSE Ok(py_strip(py_join("\n", lines.value)) \o <<"\n">>)

generate_daily_summary(weather_data) ==
    LET lines == daily_lines(weather_data, 1, <<>>)
    IN  IF lines.kind = "raise" THEN lines
        ELSE Ok(py_strip(py_join("\n", lines.value)) \o <<"\n">> \o <<"\n">>)

\* ----------------------------------------------------------------- inputs
Iso_2021_07_06 ==
    <<"2", "0", "2", "1", "-", "0", "7", "-", "0", "6", "T",
      "0", "0", ":", "0", "0", ":", "0", "0">>

Iso_2021_07_07 ==
    <<"2", "0", "2", "1", "-", "0", "7", "-", "0", "7", "T",
      "0", "0", ":", "0", "0", ":", "0", "0">>

\* 30 February: the shape of a date, not a date
Iso_2021_02_30 ==
    <<"2", "0", "2", "1", "-", "0", "2", "-", "3", "0", "T",
      "0", "0", ":", "0", "0", ":", "0", "0">>

\* noon, with an offset suffix beyond the 19 significant characters
Iso_2021_07_06_noon_offset ==
    <<"2", "0", "2", "1", "-", "0", "7", "-", "0", "6", "T",
      "1", "2", ":", "0", "0", ":", "0", "0", "+", "0", "8", ":", "0", "0">>

\* date only
Iso_2024_02_29 == <<"2", "0", "2", "4", "-", "0", "2", "-", "2", "9">>

\* not a date at all
Iso_garbage == <<"n", "o", "t", "-", "a", "-", "d", "a", "t", "e">>

DatePool == {Iso_2021_07_06, Iso_2021_07_07, Iso_2021_02_30}

IsoPool ==
    DatePool \cup {Iso_2021_07_06_noon_offset, Iso_2024_02_29, Iso_garbage}

RecordPool == {<<d, lo, hi>> : d \in DatePool, lo \in MinTempPool, hi \in MaxTempPool}

ValueSeqs == SeqsUpTo(ValuePool, MaxLen)

Datasets == SeqsUpTo(RecordPool, MaxDays)

\* ------------------------------------------------------------ the caller
VARIABLES pc, call, args, result

vars == <<pc, call, args, result>>

Init ==
    /\ pc = "idle"
    /\ call = "none"
    /\ args = <<>>
    /\ result = <<>>

\* format_temperature applied to a temperature rounded to one decimal
FormatTemperature == \E f \in FahrenheitPool :
    /\ pc = "idle"
    /\ pc' = "returned"
    /\ call' = "format_temperature"
    /\ args' = convert_f_to_c(Rat(f, 1))
    /\ result' = Ok(format_temperature(convert_f_to_c(Rat(f, 1))))

ConvertDate == \E s \in IsoPool :
    /\ pc = "idle"
    /\ pc' = "returned"
    /\ call' = "convert_date"
    /\ args' = s
    /\ result' = convert_date(s)

ConvertFToC == \E f \in FahrenheitPool :
    /\ pc = "idle"
    /\ pc' = "returned"
    /\ call' = "convert_f_to_c"
    /\ args' = f
    /\ result' = Ok(convert_f_to_c(Rat(f, 1)))

CalculateMean == \E v \in ValueSeqs :
    /\ pc = "idle"
    /\ pc' = "returned"
    /\ call' = "calculate_mean"
    /\ args' = v
    /\ result' = calculate_mean(v)

FindMin == \E v \in ValueSeqs :
    /\ pc = "idle"
    /\ pc' = "returned"
    /\ call' = "find_min"
    /\ args' = v
    /\ result' = Ok(find_min(v))

FindMax == \E v \in ValueSeqs :
    /\ pc = "idle"
    /\ pc' = "returned"
    /\ call' = "find_max"
    /\ args' = v
    /\ result' = Ok(find_max(v))

GenerateSummary == \E d \in Datasets :
    /\ pc = "idle"
    /\ pc' = "returned"
    /\ call' = "generate_summary"
    /\ args' = d
    /\ result' = generate_summary(d)

GenerateDailySummary == \E d \in Datasets :
    /\ pc = "idle"
    /\ pc' = "returned"
    /\ call' = "generate_daily_summary"
    /\ args' = d
    /\ result' = generate_daily_summary(d)

\* the caller drops the result and is ready for the next call
NextCall ==
    /\ pc = "returned"
    /\ pc' = "idle"
    /\ call' = "none"
    /\ args' = <<>>
    /\ result' = <<>>

Next ==
    \/ FormatTemperature
    \/ ConvertDate
    \/ ConvertFToC
    \/ CalculateMean
    \/ FindMin
    \/ FindMax
    \/ GenerateSummary
    \/ GenerateDailySummary
    \/ NextCall

Spec == Init /\ [][Next]_vars

\* ------------------------------------------------------ reading a result
Returned(fn) == pc = "returned" /\ call = fn

\* text.split("\n")
RECURSIVE SplitFrom(_, _, _)
SplitFrom(t, i, cur) ==
    IF i > Len(t) THEN <<cur>>
    ELSE IF t[i] = "\n" THEN <<cur>> \o SplitFrom(t, i + 1, <<>>)
    ELSE SplitFrom(t, i + 1, Append(cur, t[i]))

SplitLines(t) == SplitFrom(t, 1, <<>>)

\* how many "\n" the text ends with
TrailingNewlines(t) ==
    LET ends == {k \in 0..Len(t) : \A i \in (Len(t) - k + 1)..Len(t) : t[i] = "\n"}
    IN  CHOOSE k \in ends : \A j \in ends : j <= k

\* every record of the dataset carries a date convert_date accepts
WellFormed(weather_data) ==
    \A i \in 1..Len(weather_data) : convert_date(DayDate(weather_data[i])).kind = "ok"

\* a rendered date followed by the full stop that ends a sentence of the overview
DayWithStop(day) == [day EXCEPT ![Len(day)] = @ \o "."]

\* the date an overview line ends with: its last seven pieces
ReportedDay(line) == SubSeq(line, Len(line) - 6, Len(line))

\* the 1-based position of the first, and of the last, element of column equal to x
FirstPos(column, x) ==
    CHOOSE i \in 1..Len(column) : column[i] = x /\ \A j \in 1..(i - 1) : column[j] # x

LastPos(column, x) ==
    CHOOSE i \in 1..Len(column) : column[i] = x /\ \A j \in (i + 1)..Len(column) : column[j] # x

Lowest(column) == CHOOSE x \in {column[i] : i \in 1..Len(column)} :
    \A i \in 1..Len(column) : x <= column[i]

Highest(column) == CHOOSE x \in {column[i] : i \in 1..Len(column)} :
    \A i \in 1..Len(column) : x >= column[i]

\* --------------------------------------------------------------- find_min
\* C1: on a non-empty sequence find_min returns (value, index) where value is
\* the minimum element and index is the largest position holding it.
C1_FindMinLastOccurrence ==
    (Returned("find_min") /\ Len(args) > 0) =>
        /\ result.kind = "ok"
        /\ Len(result.value) = 2
        /\ LET value == result.value[1]
               index == result.value[2]
           IN  /\ index \in 0..(Len(args) - 1)
               /\ args[index + 1] = value
               /\ \A i \in 1..Len(args) : value <= args[i]
               /\ \A i \in 1..Len(args) : args[i] = value => i - 1 <= index

\* the minimum is tied and an earlier tied position exists
C1_Witness ==
    /\ Returned("find_min")
    /\ Len(args) > 2
    /\ result.value[2] = Len(args) - 1
    /\ args[1] = result.value[1]
    /\ args[2] > args[1]

\* --------------------------------------------------------------- find_max
\* C2: on a non-empty sequence find_max returns (value, index) where value is
\* the maximum element and index is the largest position holding it, the
\* mirror image of find_min.
C2_FindMaxLastOccurrence ==
    (Returned("find_max") /\ Len(args) > 0) =>
        /\ result.kind = "ok"
        /\ Len(result.value) = 2
        /\ LET value == result.value[1]
               index == result.value[2]
           IN  /\ index \in 0..(Len(args) - 1)
               /\ args[index + 1] = value
               /\ \A i \in 1..Len(args) : value >= args[i]
               /\ \A i \in 1..Len(args) : args[i] = value => i - 1 <= index
               /\ result.value = <<-(find_min([i \in 1..Len(args) |-> -args[i]])[1]),
                                   find_min([i \in 1..Len(args) |-> -args[i]])[2]>>

\* the maximum is tied and an earlier tied position exists
C2_Witness ==
    /\ Returned("find_max")
    /\ Len(args) > 2
    /\ result.value[2] = Len(args) - 1
    /\ args[1] = result.value[1]
    /\ args[2] < args[1]

\* C3: find_min and find_max return the empty tuple exactly when the input
\* has length 0 and never raise; a non-empty all-zero sequence gives
\* (0, len - 1) from both.
C3_EmptyResultIffEmptyInput ==
    (Returned("find_min") \/ Returned("find_max")) =>
        /\ result.kind = "ok"
        /\ (result.value = <<>>) <=> (Len(args) = 0)
        /\ (Len(args) > 0 /\ \A i \in 1..Len(args) : args[i] = 0)
              => result.value = <<0, Len(args) - 1>>

\* find_max has answered an all-zero sequence of two or more elements
C3_Witness ==
    /\ Returned("find_max")
    /\ Len(args) >= 2
    /\ \A i \in 1..Len(args) : args[i] = 0
    /\ result.value = <<0, Len(args) - 1>>

\* ------------------------------------------------------- generate_summary
\* C4: on a non-empty dataset the overview names, as the day of the lowest
\* temperature, the date of the first record whose min equals the overall
\* minimum, and as the day of the highest temperature the date of the first
\* record whose max equals the overall maximum; when the extreme is tied over
\* several records this is not the position find_min / find_max return.
C4_SummaryFirstOccurrence ==
    (Returned("generate_summary") /\ Len(args) > 0 /\ WellFormed(args)) =>
        LET lows == MinColumn(args)
            highs == MaxColumn(args)
            lowAt == FirstPos(lows, Lowest(lows))
            highAt == FirstPos(highs, Highest(highs))
        IN  /\ result.kind = "ok"
            /\ LET lines == SplitLines(result.value)
               IN  /\ ReportedDay(lines[2])
                        = DayWithStop(convert_date(DayDate(args[lowAt])).value)
                   /\ ReportedDay(lines[3])
                        = DayWithStop(convert_date(DayDate(args[highAt])).value)
            /\ (lowAt # LastPos(lows, Lowest(lows))) => find_min(lows)[2] # lowAt - 1
            /\ (highAt # LastPos(highs, Highest(highs))) => find_max(highs)[2] # highAt - 1

\* lowest and highest are both tied over two records that carry different dates
C4_Witness ==
    /\ Returned("generate_summary")
    /\ Len(args) = 2
    /\ result.kind = "ok"
    /\ DayMin(args[1]) = DayMin(args[2])
    /\ DayMax(args[1]) = DayMax(args[2])
    /\ DayDate(args[1]) = Iso_2021_07_07
    /\ DayDate(args[2]) = Iso_2021_07_06
    /\ ReportedDay(SplitLines(result.value)[2]) = <<"Wednesday", " ", "07", " ", "July", " ", "2021.">>
    /\ ReportedDay(SplitLines(result.value)[3]) = <<"Wednesday", " ", "07", " ", "July", " ", "2021.">>

\* the two-record dataset of the overview example
C5_Dataset == << <<Iso_2021_07_06, 50, 59>>, <<Iso_2021_07_07, 45, 60>> >>

LowestLine(temp, weekday, dd, month, yyyy) ==
    <<" ", " ", "The", " ", "lowest", " ", "temperature", " ", "will", " ", "be", " ",
      temp \o "°C,", " ", "and", " ", "will", " ", "occur", " ", "on", " ",
      weekday, " ", dd, " ", month, " ", yyyy \o ".">>

HighestLine(temp, weekday, dd, month, yyyy) ==
    <<" ", " ", "The", " ", "highest", " ", "temperature", " ", "will", " ", "be", " ",
      temp \o "°C,", " ", "and", " ", "will", " ", "occur", " ", "on", " ",
      weekday, " ", dd, " ", month, " ", yyyy \o ".">>

\* C5 as stated: for the dataset [(2021-07-06, 50, 59), (2021-07-07, 45, 60)]
\* the overview reports the lowest temperature as 10.0°C on Tuesday 06 July
\* 2021 and the highest as 15.6°C on Wednesday 07 July 2021.
C5_AsStated ==
    (Returned("generate_summary") /\ args = C5_Dataset) =>
        /\ result.kind = "ok"
        /\ SplitLines(result.value)[2] = LowestLine("10.0", "Tuesday", "06", "July", "2021")
        /\ SplitLines(result.value)[3] = HighestLine("15.6", "Wednesday", "07", "July", "2021")

\* C5 amended: for the dataset [(2021-07-06, 50, 59), (2021-07-07, 45, 60)]
\* the overview reports the lowest temperature as 7.2°C on Wednesday 07 July
\* 2021 (the minimum of 50 and 45 is 45) and the highest as 15.6°C on
\* Wednesday 07 July 2021.
C5_SummaryExample ==
    (Returned("generate_summary") /\ args = C5_Dataset) =>
        /\ result.kind = "ok"
        /\ SplitLines(result.value)[1] = <<"2", " ", "Day", " ", "Overview">>
        /\ SplitLines(result.value)[2] = LowestLine("7.2", "Wednesday", "07", "July", "2021")
        /\ SplitLines(result.value)[3] = HighestLine("15.6", "Wednesday", "07", "July", "2021")

\* the overview of the example dataset has been produced
C5_Witness ==
    /\ Returned("generate_summary")
    /\ args = C5_Dataset
    /\ result.kind = "ok"
    /\ Len(SplitLines(result.value)) = 6

\* C6: generate_summary on an empty dataset fails with an error and returns
\* no string at all, not even a partial report such as a header line.
C6_SummaryEmptyFails ==
    (Returned("generate_summary") /\ Len(args) = 0) =>
        /\ result.kind = "raise"
        /\ result.exc \in {"ValueError", "ZeroDivisionError"}
        /\ "value" \notin DOMAIN result

\* generate_summary has been called on the empty dataset and has raised
C6_Witness ==
    /\ Returned("generate_summary")
    /\ args = <<>>
    /\ result = Raise("ValueError")

\* ------------------------------------------------- generate_daily_summary
DailyHeader(day) == <<"----", " ">> \o convert_date(DayDate(day)).value \o <<" ", "----">>

DailyMinimum(day) ==
    <<" ", " ", "Minimum", " ", "Temperature:", " ",
      format_temperature(convert_f_to_c(Rat(DayMin(day), 1)))>>

DailyMaximum(day) ==
    <<" ", " ", "Maximum", " ", "Temperature:", " ",
      format_temperature(convert_f_to_c(Rat(DayMax(day), 1)))>>

\* C7: for a dataset of N >= 0 records generate_daily_summary never fails and
\* returns a text ending with exactly two newlines; for N >= 1 the text is N
\* blocks of three lines (header, minimum, maximum) in dataset order with one
\* blank line between consecutive blocks, for N = 0 it is the two newlines.
C7_DailySummaryShape ==
    (Returned("generate_daily_summary") /\ WellFormed(args)) =>
        /\ result.kind = "ok"
        /\ TrailingNewlines(result.value) = 2
        /\ (Len(args) = 0) => result.value = <<"\n", "\n">>
        /\ LET lines == SplitLines(result.value)
               N == Len(args)
           IN  (N >= 1) =>
                 /\ Len(lines) = 4 * N + 1
                 /\ lines[4 * N + 1] = <<>>
                 /\ \A k \in 1..N :
                       /\ lines[4 * k - 3] = DailyHeader(args[k])
                       /\ lines[4 * k - 2] = DailyMinimum(args[k])
                       /\ lines[4 * k - 1] = DailyMaximum(args[k])
                       /\ lines[4 * k] = <<>>

\* a daily summary of at least two different records has been produced
C7_Witness ==
    /\ Returned("generate_daily_summary")
    /\ Len(args) >= 2
    /\ args[1] # args[2]
    /\ result.kind = "ok"
    /\ Len(SplitLines(result.value)) = 4 * Len(args) + 1

IsHeaderLine(line) == Len(line) > 0 /\ line[1] = "----"

IsContentLine(line) == Len(line) > 0 /\ line[1] # "----"

CountLines(lines, P(_)) == Cardinality({i \in 1..Len(lines) : P(lines[i])})

\* C8 as stated: on a one-record dataset generate_daily_summary produces the
\* header line plus exactly three content lines, followed by exactly one blank
\* line before the end of the text.
C8_AsStated ==
    (Returned("generate_daily_summary") /\ Len(args) = 1 /\ WellFormed(args)) =>
        /\ result.kind = "ok"
        /\ CountLines(SplitLines(result.value), IsHeaderLine) = 1
        /\ CountLines(SplitLines(result.value), IsContentLine) = 3
        /\ TrailingNewlines(result.value) = 2

\* C8 amended: on a one-record dataset generate_daily_summary produces the
\* header line plus exactly two content lines (minimum and maximum), three
\* lines in all, followed by exactly one blank line before the end of the text.
C8_OneRecordDaily ==
    (Returned("generate_daily_summary") /\ Len(args) = 1 /\ WellFormed(args)) =>
        /\ result.kind = "ok"
        /\ CountLines(SplitLines(result.value), IsHeaderLine) = 1
        /\ CountLines(SplitLines(result.value), IsContentLine) = 2
        /\ IsHeaderLine(SplitLines(result.value)[1])
        /\ TrailingNewlines(result.value) = 2

\* a one-record daily summary has been produced
C8_Witness ==
    /\ Returned("generate_daily_summary")
    /\ Len(args) = 1
    /\ result.kind = "ok"
    /\ SplitLines(result.value)[1] = DailyHeader(args[1])

\* --------------------------------------------------------- calculate_mean
\* the sum of s[1..n], folded from the right end
RECURSIVE SumTo(_, _)
SumTo(s, n) == IF n = 0 THEN 0 ELSE SumTo(s, n - 1) + s[n]

\* C9: calculate_mean of a non-empty sequence is the sum of its elements
\* divided by its length ([1,2,3] gives 2.0); on an empty sequence it fails
\* with an error and never returns a value.
C9_MeanOrError ==
    Returned("calculate_mean") =>
        /\ (Len(args) > 0) =>
              /\ result.kind = "ok"
              /\ result.value.den > 0
              /\ result.value.num * Len(args) = SumTo(args, Len(args)) * result.value.den
              /\ Gcd(Abs(result.value.num), result.value.den) = 1
        /\ (args = <<1, 2, 3>>) => result = Ok([num |-> 2, den |-> 1])
        /\ (Len(args) = 0) =>
              /\ result.kind = "raise"
              /\ "value" \notin DOMAIN result

\* the mean of a sequence whose mean is not a whole number has been returned
C9_Witness ==
    /\ Returned("calculate_mean")
    /\ Len(args) = 3
    /\ result.kind = "ok"
    /\ result.value.den = 3

\* --------------------------------------------------------- convert_f_to_c
\* round(p / q) to the nearest integer, ties away from zero (q > 0)
RoundHalfAway(p, q) ==
    LET a == Abs(p)
        n == (2 * a + q) \div (2 * q)
    IN  IF p < 0 THEN -n ELSE n

\* C10: for an integer Fahrenheit f, convert_f_to_c(f) is the multiple of 0.1
\* nearest to (f - 32) * 5/9, 32 gives 0.0 and 212 gives 100.0; the exact value
\* is never halfway between two tenths, so rounding half to even and rounding
\* half away from zero agree.
C10_NearestTenth ==
    Returned("convert_f_to_c") =>
        /\ result.kind = "ok"
        /\ 2 * Abs(50 * (args - 32) - 9 * result.value) < 9
        /\ (args = 32) => result.value = 0
        /\ (args = 212) => result.value = 1000
        /\ result.value = RoundHalfAway(50 * (args - 32), 9)
        /\ RoundHalfEven(50 * (args - 32), 9) = RoundHalfAway(50 * (args - 32), 9)

\* the boiling point, 212 degrees Fahrenheit, has been converted
C10_Witness ==
    /\ Returned("convert_f_to_c")
    /\ args = 212
    /\ result = Ok(1000)

====
